---- MODULE Spec2Model ----
(***************************************************************************)
(* Model of src/main.py: the minimum-cost completion of a partially        *)
(* specified transducer (solve / solve.dfs) and the driver that calls it.  *)
(*                                                                         *)
(* Python values are modelled as follows.                                  *)
(*   - a string is a sequence of one-character strings;                    *)
(*   - a tuple is a TLA+ tuple; None is the empty tuple <<>>;              *)
(*   - the dict extra_transitions is modelled by its item set, a set of    *)
(*     <<<<node, inp>>, <<dest, out>>>> pairs (what frozenset(d.items())   *)
(*     holds), so equal content is equal by value;                         *)
(*   - the lru_cache of dfs is a function from argument tuples to results. *)
(***************************************************************************)
EXTENDS Integers, Sequences, FiniteSets, TLC

(***************************************************************************)
(* Bounds of the model.                                                    *)
(***************************************************************************)
\* longest trace (in steps) the driver hands to solve
MaxSteps == 2
\* longest trace (in steps) of a driver that solves several test strings
MaxSeqSteps == 1
\* number of two-bit inputs that occur in the test strings
NumInputs == 2

\* main.py:164-167.  The driver's list test_strs has two entries.
NumTestStrs == 2

(***************************************************************************)
(* The module global DEFINED_TRANSITIONS, as dfs reads it at run time.     *)
(***************************************************************************)
VARIABLE table

(***************************************************************************)
(* The transducer model.                                                   *)
(***************************************************************************)
\* main.py:8-13.  node -> (two-bit input -> <<destination, output>>)
DEFINED_TRANSITIONS ==
    [ S0 |-> ( <<"0","1">> :> <<"S1","1">> @@ <<"1","1">> :> <<"S1","0">>
               @@ <<"1","0">> :> <<"S2","0">> ),
      S1 |-> ( <<"0","1">> :> <<"S3","1">> ),
      S2 |-> ( <<"0","0">> :> <<"S3","1">> @@ <<"1","1">> :> <<"S1","0">>
               @@ <<"1","0">> :> <<"S3","0">> ),
      S3 |-> ( <<"0","1">> :> <<"S0","1">> ) ]

\* main.py:15
INITIAL_NODES == DOMAIN DEFINED_TRANSITIONS

\* NewNodeLabel without the counter
NewNodeLabelFixed(k) == "N1"

\* main.py:110.  "N" + str(k), for the k the bounds allow
NewNodeLabel(k) == <<"N1","N2","N3","N4","N5","N6","N7","N8">>[k]

(***************************************************************************)
(* Iteration order of a Python set of node labels.  The order is that of   *)
(* the slots of the set's hash table, so it depends on the string hashes,  *)
(* which CPython draws from the hash seed of the process (PYTHONHASHSEED,  *)
(* random when unset).  The program does not choose its hash seed, so a    *)
(* process is modelled by the orders its hash seed gives: any order of     *)
(* INITIAL_NODES (main.py:15; its copy at main.py:91 iterates in the same  *)
(* order), and, independently, any order of available_nodes once it holds  *)
(* synthesized nodes (main.py:91-94: the set has then grown to a larger    *)
(* table, where the labels fall into other slots).                         *)
(*                                                                         *)
(* seed[k + 1] is the order of the node set that holds N1..Nk.  The sets   *)
(* dfs iterates hold at most one synthesized node for traces of up to two  *)
(* steps.  With two or more synthesized nodes the order is taken to be a   *)
(* function of the content of the set; in CPython it can also depend on    *)
(* the order in which colliding labels were added.                         *)
(***************************************************************************)
\* the node set that holds the synthesized nodes N1..Nk
NodeSet(k) == INITIAL_NODES \cup {NewNodeLabel(j) : j \in 1..k}

\* the orders in which a set S can be iterated
Orders(S) ==
    {o \in [1..Cardinality(S) -> S] :
        \A a \in 1..Cardinality(S) : \A b \in 1..Cardinality(S) :
            o[a] = o[b] => a = b}

\* main.py:97, 125.  The order in which the process iterates over the set
\* S of node labels.
SetOrder(S, seed) ==
    SelectSeq(seed[Cardinality(S \ INITIAL_NODES) + 1], LAMBDA x : x \in S)

(***************************************************************************)
(* Helpers over the item set of extra_transitions.                         *)
(***************************************************************************)
\* HasExtra finding no key
HasExtraNever(ext, node, inp) == FALSE

\* (current_node, inp) in extra_transitions
HasExtra(ext, node, inp) == \E e \in ext : e[1] = <<node, inp>>

\* extra_transitions[(current_node, inp)]
GetExtra(ext, node, inp) == (CHOOSE e \in ext : e[1] = <<node, inp>>)[2]

\* SetExtra starting from an empty dict instead of a copy
SetExtraOnly(ext, node, inp, dest, out) == {<<<<node, inp>>, <<dest, out>>>>}

\* new_extra = copy.copy(extra_transitions); new_extra[(node, inp)] = (dest, out)
SetExtra(ext, node, inp, dest, out) ==
    {e \in ext : e[1] # <<node, inp>>} \cup {<<<<node, inp>>, <<dest, out>>>>}

\* main.py:63.  current_node in DEFINED_TRANSITIONS and inp in DEFINED_TRANSITIONS[current_node]
HasDefined(node, inp) ==
    /\ node \in DOMAIN table
    /\ inp \in DOMAIN table[node]

\* NeedsExtra whatever transition exists
NeedsExtraAlways(ext, node, inp) == TRUE

\* NeedsExtra looking at the table only
NeedsExtraUnlessDefined(ext, node, inp) == ~HasDefined(node, inp)

\* NeedsExtra looking at the added transitions only
NeedsExtraUnlessAdded(ext, node, inp) == ~HasExtra(ext, node, inp)

\* main.py:87-88.  No transition exists for (current_node, inp), neither
\* pre-defined nor added.
NeedsExtra(ext, node, inp) ==
    ~HasDefined(node, inp) /\ ~HasExtra(ext, node, inp)

\* main.py:91-94
AvailableNodes(ext) == INITIAL_NODES \cup {e[2][1] : e \in ext}

(***************************************************************************)
(* solve.dfs with its lru_cache.  Dfs returns the cache after the call     *)
(* dfs(i, current_node, extra_transitions_state, new_node_count); the      *)
(* call's return value is the cache entry of its argument tuple.           *)
(***************************************************************************)
\* AtEnd one step before the end of the trace
AtEndEarly(steps, i) == i >= Len(steps) - 1

\* main.py:56.  i == len(steps)
AtEnd(steps, i) == i = Len(steps)

\* StepCost forgetting the cost of the new node
StepCostFlat(is_extra, is_new) ==
    IF ~is_extra THEN 0 ELSE 1

\* StepCost charging 1 for every step, added or not
StepCostCharged(is_extra, is_new) ==
    IF is_new THEN 1 + 1 ELSE 1

\* main.py:70, 82, 105, 117.  What a step adds to cost_next: nothing for a
\* pre-defined or already added transition, 1 for an extra transition, 1 + 1
\* for an extra transition to a new node.
StepCost(is_extra, is_new) ==
    IF ~is_extra THEN 0 ELSE IF is_new THEN 1 + 1 ELSE 1

\* Better without the comparison: the last candidate wins
BetterLast(best, candidate) == candidate

\* Better without the "best is None" case
BetterNoInit(best, candidate) ==
    IF best # <<>> /\ candidate[1] < best[1] THEN candidate ELSE best

\* main.py:72, 84, 107, 119.
\* best = candidate if best is None or candidate[0] < best[0] else best
Better(best, candidate) ==
    IF best = <<>> \/ candidate[1] < best[1] THEN candidate ELSE best

\* Consider putting the step after the rest of the path
ConsiderAppend(best, res, pathStep) ==
    IF res = <<>> THEN best
    ELSE Better(best, <<StepCost(pathStep[5], pathStep[6]) + res[1],
                        res[2] \o <<pathStep>>, res[3], res[4]>>)

\* main.py:67-72 (and 79-84, 103-107, 114-119).  The candidate built from
\* the child's result res, or best unchanged if res is None.
Consider(best, res, pathStep) ==
    IF res = <<>> THEN best
    ELSE Better(best, <<StepCost(pathStep[5], pathStep[6]) + res[1],
                        <<pathStep>> \o res[2], res[3], res[4]>>)

RECURSIVE Dfs(_, _, _, _, _, _, _)
RECURSIVE TryDests(_, _, _, _, _, _, _, _, _)

\* main.py:97-107.  The loop over available_nodes; st = <<cache, best>>.
TryDests(steps, seed, st, dests, i, node, ext, nn, k) ==
    IF k > Len(dests) THEN st
    ELSE LET inp == steps[i + 1][1]
             req == steps[i + 1][2]
             dest == dests[k]
             new_extra == SetExtra(ext, node, inp, dest, req)
             c == Dfs(steps, seed, st[1], i + 1, dest, new_extra, nn)
             res == c[<<i + 1, dest, new_extra, nn>>]
             best == Consider(st[2], res, <<node, inp, req, dest, TRUE, FALSE>>)
         IN  TryDests(steps, seed, <<c, best>>, dests, i, node, ext, nn, k + 1)

\* main.py:39-121
Dfs(steps, seed, cache, i, node, ext, nn) ==
    LET key == <<i, node, ext, nn>> IN
    IF key \in DOMAIN cache THEN cache
    ELSE IF AtEnd(steps, i) THEN (key :> <<0, <<>>, ext, nn>>) @@ cache
    ELSE
      LET inp == steps[i + 1][1]
          req == steps[i + 1][2]
          \* main.py:62-72
          use1 == HasDefined(node, inp) /\ table[node][inp][2] = req
          dest1 == table[node][inp][1]
          c1 == IF use1 THEN Dfs(steps, seed, cache, i + 1, dest1, ext, nn) ELSE cache
          best1 == IF use1
                   THEN Consider(<<>>, c1[<<i + 1, dest1, ext, nn>>],
                                 <<node, inp, req, dest1, FALSE, FALSE>>)
                   ELSE <<>>
          \* main.py:74-84
          use2 == HasExtra(ext, node, inp) /\ GetExtra(ext, node, inp)[2] = req
          dest2 == GetExtra(ext, node, inp)[1]
          c2 == IF use2 THEN Dfs(steps, seed, c1, i + 1, dest2, ext, nn) ELSE c1
          best2 == IF use2
                   THEN Consider(best1, c2[<<i + 1, dest2, ext, nn>>],
                                 <<node, inp, req, dest2, FALSE, FALSE>>)
                   ELSE best1
          \* main.py:86-119
          extend == NeedsExtra(ext, node, inp)
          st3 == TryDests(steps, seed, <<c2, best2>>,
                          SetOrder(AvailableNodes(ext), seed), i, node, ext, nn, 1)
          new_node_label == NewNodeLabel(nn + 1)
          new_extra == SetExtra(ext, node, inp, new_node_label, req)
          c4 == Dfs(steps, seed, st3[1], i + 1, new_node_label, new_extra, nn + 1)
          best4 == Consider(st3[2], c4[<<i + 1, new_node_label, new_extra, nn + 1>>],
                            <<node, inp, req, new_node_label, TRUE, TRUE>>)
      IN  IF extend THEN (key :> best4) @@ c4 ELSE (key :> best2) @@ c2

(***************************************************************************)
(* The driver's inputs: raw test strings, written as the driver's are      *)
(* (triplets joined by "_"), built from bounded step sequences.            *)
(***************************************************************************)
Bits == {"0", "1"}

\* the two-bit inputs of the steps of the test strings: 01, 11, 10, 00 (the
\* order in which main.py:9-11 first names them), as far as the bound allows
Inputs ==
    {<<<<"0","1">>, <<"1","1">>, <<"1","0">>, <<"0","0">>>>[k] : k \in 1..NumInputs}

StepSeqs(n) == UNION {[1..k -> Inputs \X Bits] : k \in 0..n}

\* a sequence without its last element
Front(q) == SubSeq(q, 1, Len(q) - 1)

RECURSIVE RawOf(_)
RawOf(ss) ==
    IF ss = <<>> THEN <<>>
    ELSE LET t == <<ss[1][1][1], ss[1][1][2], ss[1][2]>>
         IN  IF Len(ss) = 1 THEN t ELSE t \o <<"_">> \o RawOf(Tail(ss))

\* main.py:172.  re.sub(r'[^01]', '', test_str)
Clean(raw) == SelectSeq(raw, LAMBDA ch : ch \in Bits)

\* main.py:24.  steps[i] = (s[3i:3i+2], s[3i+2]), i in range(len(s) // 3)
Decode(s) ==
    [k \in 1..(Len(s) \div 3) |-> <<<<s[3 * k - 2], s[3 * k - 1]>>, s[3 * k]>>]

(***************************************************************************)
(* solve, lines 123-144.                                                   *)
(***************************************************************************)
\* FreshCache for a cache that outlives the call (one lru_cache per process)
KeepCache(old) == old

\* main.py:39-40.  Each call of solve defines dfs anew, with a new lru_cache.
FreshCache(old) == <<>>

\* SearchStep without the "best_overall is None" case
SearchStepNoInit(steps, seed, st, start) ==
    LET c == Dfs(steps, seed, st[1], 0, start, {}, 0)
        res == c[<<0, start, {}, 0>>]
        bo == st[2]
    IN  IF res # <<>> /\ bo # <<>> /\ res[1] < bo[1]
        THEN <<c, <<res[1], res[2], res[3], res[4], start>>>>
        ELSE <<c, bo>>

\* main.py:126-130.  One iteration of the loop over the start nodes;
\* st = <<cache, best_overall>>.
SearchStep(steps, seed, st, start) ==
    LET c == Dfs(steps, seed, st[1], 0, start, {}, 0)
        res == c[<<0, start, {}, 0>>]
        bo == st[2]
    IN  IF res # <<>> /\ (bo = <<>> \/ res[1] < bo[1])
        THEN <<c, <<res[1], res[2], res[3], res[4], start>>>>
        ELSE <<c, bo>>

\* main.py:124-130.  The whole loop over the start nodes in the order q,
\* from the cache and best_overall in st.
RECURSIVE SearchAll(_, _, _, _)
SearchAll(steps, seed, st, q) ==
    IF q = <<>> THEN st
    ELSE LET nx == SearchStep(steps, seed, st, Head(q))
         IN  SearchAll(steps, seed, nx, Tail(q))

\* ExtraPathCount counting every step of the path
ExtraPathCountAll(path) == Len(path)

\* main.py:139.  sum(1 for step in best_path if step[4] is True)
ExtraPathCount(path) == Cardinality({k \in 1..Len(path) : path[k][5] = TRUE})

\* main.py:132-144.  What solve prints: the no-solution message, or the
\* cost, the two counts, the path (and the start node it kept).
ReportOf(bo) ==
    IF bo = <<>> THEN [kind |-> "no_solution"]
    ELSE [kind |-> "result", extra_cost |-> bo[1],
          extra_path |-> ExtraPathCount(bo[2]), extra_node |-> bo[4],
          path |-> bo[2], start |-> bo[5]]

(***************************************************************************)
(* State.                                                                  *)
(***************************************************************************)
VARIABLES
    test_strs,      \* the driver's test strings not yet solved (main.py:164)
    seed,           \* the set-iteration orders the process's hash seed gives
    pc,             \* "main" | "solve" | "search" | "raised"
    binary_string,  \* the argument of the running solve call
    steps,          \* main.py:24
    cache,          \* the lru_cache of the dfs of the latest solve call
    todo,           \* start nodes the loop of main.py:125 has yet to visit
    best_overall,   \* main.py:124
    output,         \* what the latest finished solve call printed or raised
    returned        \* <<binary_string, extra_cost>> of every solve call that reported a result

vars == <<table, test_strs, seed, pc, binary_string, steps, cache, todo,
          best_overall, output, returned>>

\* the orders a process can give the node sets that a trace of n steps
\* lets dfs iterate: those with fewer than n synthesized nodes
RECURSIVE OrdersUpTo(_)
OrdersUpTo(k) ==
    IF k = 0 THEN {<<o>> : o \in Orders(NodeSet(0))}
    ELSE {Append(f, o) : f \in OrdersUpTo(k - 1), o \in Orders(NodeSet(k))}

Seeds(n) == OrdersUpTo(IF n > 1 THEN n - 1 ELSE 0)

\* the length in steps of the longest of the test strings strs
LongestSteps(strs) ==
    LET lens == {Len(Clean(strs[j])) \div 3 : j \in 1..Len(strs)}
    IN  CHOOSE n \in lens : \A m \in lens : m <= n

\* the test strings of at most n steps, and each without its last character
TestStrings(n) ==
    LET whole == {RawOf(t) : t \in StepSeqs(n)}
    IN  whole \cup {Front(r) : r \in whole \ {<<>>}}

\* the test strings of at most n steps, and those of two characters
DriverStrings(n) ==
    {RawOf(t) : t \in StepSeqs(n)} \cup [1..2 -> Bits]

InitWith(strs) ==
    /\ table = DEFINED_TRANSITIONS
    /\ test_strs \in strs
    /\ seed \in Seeds(LongestSteps(test_strs))
    /\ pc = "main"
    /\ binary_string = <<>>
    /\ steps = <<>>
    /\ cache = <<>>
    /\ todo = <<>>
    /\ best_overall = <<>>
    /\ output = [kind |-> "none"]
    /\ returned = {}

\* a process whose driver has one test string of at most MaxSteps steps
Init == InitWith([1..1 -> TestStrings(MaxSteps)])

\* main.py:169-172.  The driver takes its next test string and calls solve.
Call ==
    /\ pc = "main"
    /\ test_strs # <<>>
    /\ binary_string' = Clean(Head(test_strs))
    /\ test_strs' = Tail(test_strs)
    /\ pc' = "solve"
    /\ UNCHANGED <<table, seed, steps, cache, todo, best_overall, output, returned>>

\* BadLength accepting every length
BadLengthNever(s) == FALSE

\* main.py:20.  len(binary_string) % 3 != 0
BadLength(s) == Len(s) % 3 # 0

\* main.py:20-21.  A length that is no multiple of 3 raises ValueError,
\* which nothing catches: the process ends.
SolveReject ==
    /\ pc = "solve"
    /\ BadLength(binary_string)
    /\ pc' = "raised"
    /\ output' = [kind |-> "ValueError"]
    /\ UNCHANGED <<table, test_strs, seed, binary_string, steps, cache, todo,
                   best_overall, returned>>

\* main.py:22-40, 124.  Decode the steps, define dfs with its new cache.
SolveBegin ==
    /\ pc = "solve"
    /\ ~BadLength(binary_string)
    /\ steps' = Decode(binary_string)
    /\ cache' = FreshCache(cache)
    /\ best_overall' = <<>>
    /\ todo' = SetOrder(INITIAL_NODES, seed)
    /\ pc' = "search"
    /\ UNCHANGED <<table, test_strs, seed, binary_string, output, returned>>

\* main.py:125-130.  One iteration of the loop over INITIAL_NODES.
TryStart ==
    /\ pc = "search"
    /\ todo # <<>>
    /\ LET st == SearchStep(steps, seed, <<cache, best_overall>>, Head(todo))
       IN  /\ cache' = st[1]
           /\ best_overall' = st[2]
    /\ todo' = Tail(todo)
    /\ UNCHANGED <<table, test_strs, seed, pc, binary_string, steps, output, returned>>

\* main.py:132-155.  Print the no-solution message, or the cost, the counts
\* and the path; solve returns to the driver.
Report ==
    /\ pc = "search"
    /\ todo = <<>>
    /\ output' = ReportOf(best_overall)
    /\ returned' = IF best_overall = <<>> THEN returned
                   ELSE returned \cup {<<binary_string, best_overall[1]>>}
    /\ pc' = "main"
    /\ UNCHANGED <<table, test_strs, seed, binary_string, steps, cache, todo,
                   best_overall>>

Next == Call \/ SolveReject \/ SolveBegin \/ TryStart \/ Report

Spec == Init /\ [][Next]_vars

\* a process whose driver has NumTestStrs test strings of at most MaxSeqSteps steps
InitDriver ==
    InitWith([1..NumTestStrs -> DriverStrings(MaxSeqSteps)])

SpecDriver == InitDriver /\ [][Next]_vars

(***************************************************************************)
(* Properties.                                                             *)
(***************************************************************************)
\* the latest solve call has returned to the driver after reporting a result
Reported == pc = "main" /\ output.kind = "result"

\* step k (1-based) of the trace, read from the argument of solve
TraceInput(k) == <<binary_string[3 * k - 2], binary_string[3 * k - 1]>>
TraceOutput(k) == binary_string[3 * k]
TraceLen == Len(binary_string) \div 3

\* C1: the reported path has one entry per trace step, entry k carries the
\* input and the required output of step k, the first entry leaves the
\* reported start node, which is a predefined node, and every later entry
\* leaves the node the entry before it arrives at.
C1_PathReplaysTrace ==
    Reported =>
        LET p == output.path IN
        /\ Len(p) = TraceLen
        /\ output.start \in INITIAL_NODES
        /\ \A k \in 1..Len(p) :
              /\ p[k][2] = TraceInput(k)
              /\ p[k][3] = TraceOutput(k)
              /\ p[k][1] = IF k = 1 THEN output.start ELSE p[k - 1][4]

C1_Witness ==
    /\ Reported
    /\ Len(output.path) = 2
    /\ output.path[1][5]
    /\ ~output.path[2][5]
    /\ output.path[2][1] # output.path[1][1]

(***************************************************************************)
(* All legal completions of a trace, by enumeration: a run is the sequence *)
(* of nodes visited, from a predefined start node; the transitions it adds *)
(* are the steps it takes that the table does not define.                  *)
(***************************************************************************)
RunStates(n) == INITIAL_NODES \cup {NewNodeLabel(k) : k \in 1..n}

\* the run q of the trace prefix of k steps takes no step that contradicts
\* the table, and no two steps that contradict each other
LegalRun(q, k) ==
    /\ q[1] \in INITIAL_NODES
    /\ \A j \in 1..k :
          HasDefined(q[j], TraceInput(j)) =>
              table[q[j]][TraceInput(j)] = <<q[j + 1], TraceOutput(j)>>
    /\ \A j \in 1..k : \A m \in 1..k :
          (q[j] = q[m] /\ TraceInput(j) = TraceInput(m)) =>
              (q[j + 1] = q[m + 1] /\ TraceOutput(j) = TraceOutput(m))

RECURSIVE LegalRuns(_)
LegalRuns(k) ==
    IF k = 0 THEN {<<s>> : s \in INITIAL_NODES}
    ELSE LET shorter == LegalRuns(k - 1)
         IN  {r \in {Append(q, d) : q \in shorter, d \in RunStates(k)} :
                LegalRun(r, k)}

\* the transitions a run adds, and the states it creates
RunAdded(q) ==
    {<<q[j], TraceInput(j)>> : j \in {m \in 1..TraceLen :
                                        ~HasDefined(q[m], TraceInput(m))}}
RunCreated(q) == {q[j] : j \in 1..Len(q)} \ INITIAL_NODES
RunCost(q) == Cardinality(RunAdded(q)) + Cardinality(RunCreated(q))

\* C2: the reported cost is the cost of some legal completion, and no legal
\* completion from any predefined start node costs less.
C2_CostIsMinimal ==
    Reported =>
        LET costs == {RunCost(q) : q \in LegalRuns(TraceLen)} IN
        /\ output.extra_cost \in costs
        /\ \A c \in costs : output.extra_cost <= c

C2_Witness ==
    /\ Reported
    /\ TraceLen = 2
    /\ output.extra_cost = 3
    /\ \E q \in LegalRuns(TraceLen) : RunCost(q) > 3

\* C3: the reported Extra Cost is the reported Extra Path plus the reported
\* Extra Node.
C3_CostIsPathPlusNode ==
    Reported => output.extra_cost = output.extra_path + output.extra_node

C3_Witness ==
    /\ Reported
    /\ output.extra_node >= 1
    /\ output.extra_path > output.extra_node

\* the tags of the reported path
TaggedExtra == {k \in 1..Len(output.path) : output.path[k][5]}
TaggedNew == {k \in 1..Len(output.path) : output.path[k][6]}

\* C4 as claimed: the reported cost is the number of new transitions plus
\* twice the number of brand-new states.
C4_CostCountsNodeTwice ==
    Reported => output.extra_cost = output.extra_path + 2 * output.extra_node

\* C4 as amended: the reported cost is the number of new transitions plus
\* the number of brand-new states, once each: every step tagged extra adds
\* 1, and a step that is also tagged new node adds 1 more.
C4_CostCountsNodeOnce ==
    Reported =>
        output.extra_cost = Cardinality(TaggedExtra) + Cardinality(TaggedNew)

C4_Witness ==
    /\ Reported
    /\ Cardinality(TaggedNew) = 1
    /\ Cardinality(TaggedExtra) = 2
    /\ output.extra_cost = 3

(***************************************************************************)
(* Search nodes.  The keys of the cache are the search nodes the running   *)
(* solve call has reached: <<i, current_node, extra_transitions, count>>.  *)
(***************************************************************************)
\* the input and the required output of the step a node is at (i is 0-based)
NodeInput(key) == steps[key[1] + 1][1]
NodeOutput(key) == steps[key[1] + 1][2]
InnerNodes == {key \in DOMAIN cache : key[1] < Len(steps)}

\* a transition for (current node, input) exists, in the table or added
HasTransition(key) ==
    \/ HasDefined(key[2], NodeInput(key))
    \/ HasExtra(key[3], key[2], NodeInput(key))

\* one of the four options can be taken at the node
OptionAvailable(key) ==
    \/ /\ HasDefined(key[2], NodeInput(key))
       /\ table[key[2]][NodeInput(key)][2] = NodeOutput(key)
    \/ /\ HasExtra(key[3], key[2], NodeInput(key))
       /\ GetExtra(key[3], key[2], NodeInput(key))[2] = NodeOutput(key)
    \/ ~HasTransition(key)

\* the loop over the start nodes has ended
SearchEnded == pc = "search" /\ todo = <<>>

\* C5 as claimed: solve never reports "no solution", and at every search
\* node reached some option is available.
C5_AlwaysAnOption ==
    /\ output.kind # "no_solution"
    /\ SearchEnded => best_overall # <<>>
    /\ \A key \in InnerNodes : OptionAvailable(key)

\* C5 as amended: solve never reports "no solution" (some start node yields
\* a completion), and every search node reached at which no transition for
\* (current node, input) exists yet yields a result; a node without any
\* available option is one whose existing transition has another output,
\* and it yields none.
C5_AlwaysACompletion ==
    /\ output.kind # "no_solution"
    /\ SearchEnded => best_overall # <<>>
    /\ SearchEnded => \E s \in INITIAL_NODES : cache[<<0, s, {}, 0>>] # <<>>
    /\ \A key \in InnerNodes :
          /\ ~HasTransition(key) => cache[key] # <<>>
          /\ ~OptionAvailable(key) => (HasTransition(key) /\ cache[key] = <<>>)

C5_Witness ==
    /\ Reported
    /\ TraceLen = 2
    /\ \E key \in InnerNodes : ~OptionAvailable(key) /\ key[1] = 1
    /\ \E key \in InnerNodes : ~HasTransition(key) /\ key[1] = 1
    /\ cache[<<0, "S0", {}, 0>>] = <<>>

\* the latest solve call has returned to the driver
Returned == pc = "main" /\ output.kind \in {"result", "no_solution"}

\* C7: the cache is empty when a solve call starts its search, and every
\* cost a solve call has reported for a trace is the cost solve reports for
\* that trace as the first call of a process, hence the same on every call.
C7_CacheIsPerCall ==
    /\ (pc = "search" /\ Len(todo) = Cardinality(INITIAL_NODES)) => cache = <<>>
    /\ pc = "main" =>
          \A r \in returned :
              r[2] = SearchAll(Decode(r[1]), seed, <<<<>>, <<>>>>,
                               SetOrder(INITIAL_NODES, seed))[2][1]
    /\ \A r1 \in returned : \A r2 \in returned : r1[1] = r2[1] => r1[2] = r2[2]

C7_Witness ==
    /\ pc = "main"
    /\ test_strs = <<>>
    /\ \E r1 \in returned : \E r2 \in returned :
          r1[1] # r2[1] /\ r1[2] # r2[2] /\ Len(r1[1]) = Len(r2[1])

\* C8: the reported start node and path are those solve reports under every
\* other iteration order of the node sets.
C8_OrderIndependent ==
    Reported =>
        \A sd \in Seeds(Len(steps)) :
            LET other == ReportOf(SearchAll(steps, sd, <<<<>>, <<>>>>,
                                            SetOrder(INITIAL_NODES, sd))[2])
            IN  other.start = output.start /\ other.path = output.path

\* some predefined start node runs the whole trace on transitions of the
\* table whose outputs are the required ones
PredefinedRun(q) ==
    /\ q[1] \in INITIAL_NODES
    /\ \A k \in 1..TraceLen :
          /\ HasDefined(q[k], TraceInput(k))
          /\ table[q[k]][TraceInput(k)] = <<q[k + 1], TraceOutput(k)>>
AllPredefined == \E q \in [1..(TraceLen + 1) -> INITIAL_NODES] : PredefinedRun(q)

\* C9: for a trace the table alone satisfies from some start node, solve
\* reports cost 0, no step tagged extra and no synthesized state.
C9_PredefinedCostsNothing ==
    (Returned /\ AllPredefined) =>
        /\ output.kind = "result"
        /\ output.extra_cost = 0
        /\ output.extra_path = 0
        /\ output.extra_node = 0
        /\ \A k \in 1..Len(output.path) : ~output.path[k][5] /\ ~output.path[k][6]

C9_Witness ==
    /\ Returned
    /\ AllPredefined
    /\ TraceLen = 2
    /\ Len(output.path) = 2

\* C10: for the empty trace solve reports cost 0, no added transition, no
\* synthesized state and an empty path, and the search from every
\* predefined start node gives that result.
C10_EmptyTrace ==
    (Returned /\ TraceLen = 0) =>
        /\ output.kind = "result"
        /\ output.extra_cost = 0
        /\ output.extra_path = 0
        /\ output.extra_node = 0
        /\ output.path = <<>>
        /\ output.start \in INITIAL_NODES
        /\ \A s \in INITIAL_NODES : cache[<<0, s, {}, 0>>] = <<0, <<>>, {}, 0>>

C10_Witness ==
    /\ Returned
    /\ binary_string = <<>>
    /\ output.kind = "result"
    /\ DOMAIN cache = {<<0, s, {}, 0>> : s \in INITIAL_NODES}

\* C11: a trace whose cleaned length is no multiple of 3 is rejected: the
\* call raises ValueError and the process ends there, no step has been
\* decoded, no search node has been explored, no start node has been tried
\* and nothing has been reported or returned.
C11_BadLengthRejected ==
    (Len(binary_string) % 3 # 0) =>
        /\ pc \in {"solve", "raised"}
        /\ pc = "raised" => output = [kind |-> "ValueError"]
        /\ pc = "solve" => output = [kind |-> "none"]
        /\ steps = <<>>
        /\ cache = <<>>
        /\ todo = <<>>
        /\ best_overall = <<>>
        /\ returned = {}

C11_Witness ==
    /\ pc = "raised"
    /\ Len(binary_string) = 5
    /\ output.kind = "ValueError"
    /\ test_strs = <<>>

\* the keys (node, input) of an item set of extra_transitions
ExtKeys(ext) == {e[1] : e \in ext}

\* the table defines a transition for the key (node, input)
TableDefines(k) == k[1] \in DOMAIN table /\ k[2] \in DOMAIN table[k[1]]

\* C13: at every search node reached, and in every result a search node
\* returns, the added transitions have no key (node, input) for which the
\* table defines a transition.
C13_NoPredefinedKeyAdded ==
    \A key \in DOMAIN cache :
        /\ \A k \in ExtKeys(key[3]) : ~TableDefines(k)
        /\ cache[key] # <<>> => \A k \in ExtKeys(cache[key][3]) : ~TableDefines(k)

C13_Witness ==
    \E key \in DOMAIN cache :
        /\ key[1] = 2
        /\ Cardinality(key[3]) = 2
        /\ \E k \in ExtKeys(key[3]) : k[1] \in INITIAL_NODES
        /\ \E n \in INITIAL_NODES : TableDefines(<<n, steps[1][1]>>)

\* main.py:66, 78, 102, 113.  The search nodes dfs calls from the search
\* node key = <<i, current_node, extra_transitions, new_node_count>>.
Children(key) ==
    LET i == key[1]
        node == key[2]
        ext == key[3]
        nn == key[4]
        inp == steps[i + 1][1]
        req == steps[i + 1][2]
    IN  IF AtEnd(steps, i) THEN {}
        ELSE
          (IF HasDefined(node, inp) /\ table[node][inp][2] = req
           THEN {<<i + 1, table[node][inp][1], ext, nn>>} ELSE {})
          \cup
          (IF HasExtra(ext, node, inp) /\ GetExtra(ext, node, inp)[2] = req
           THEN {<<i + 1, GetExtra(ext, node, inp)[1], ext, nn>>} ELSE {})
          \cup
          (IF NeedsExtra(ext, node, inp)
           THEN {<<i + 1, d, SetExtra(ext, node, inp, d, req), nn>> :
                    d \in AvailableNodes(ext)}
                \cup {<<i + 1, NewNodeLabel(nn + 1),
                         SetExtra(ext, node, inp, NewNodeLabel(nn + 1), req),
                         nn + 1>>}
           ELSE {})

\* the search nodes the loop over the start nodes has called so far
Roots == {<<0, s, {}, 0>> : s \in INITIAL_NODES} \cap DOMAIN cache

\* an item set maps every key to one pair, as a dict does
IsDict(ext) == \A e1 \in ext : \A e2 \in ext : e1[1] = e2[1] => e1 = e2

\* C14: the search nodes reached are the start nodes and the nodes called
\* from a node reached; the added transitions of a called node include
\* those of its caller, map every key to one pair, and are included in the
\* added transitions of every result the called node returns, so a key
\* keeps its pair from the node that adds it to the end of the branch.
C14_ExtensionsOnlyGrow ==
    LET called == UNION {Children(par) : par \in DOMAIN cache} IN
    \A key \in DOMAIN cache :
        /\ IsDict(key[3])
        /\ key \in Roots \/ key \in called
        /\ \A c \in Children(key) :
              /\ c \in DOMAIN cache
              /\ c[1] = key[1] + 1
              /\ key[3] \subseteq c[3]
              /\ IsDict(c[3])
        /\ cache[key] # <<>> =>
              /\ key[3] \subseteq cache[key][3]
              /\ IsDict(cache[key][3])

C14_Witness ==
    \E key \in DOMAIN cache :
        /\ key[1] = 1
        /\ Cardinality(key[3]) = 1
        /\ \E c \in Children(key) : c[3] = key[3]
        /\ \E par \in DOMAIN cache : \E c \in Children(par) :
              /\ Cardinality(par[3]) = 1
              /\ Cardinality(c[3]) = 2
              /\ par[3] \subseteq c[3]
              /\ cache[c] # <<>>

\* the table defines a transition for (current node, input) of the search
\* node, with an output other than the required one
TableMismatch(key) ==
    /\ TableDefines(<<key[2], NodeInput(key)>>)
    /\ table[key[2]][NodeInput(key)][2] # NodeOutput(key)

\* the added transitions hold one for (current node, input) of the search
\* node, with an output other than the required one
ExtraMismatch(key) ==
    \E e \in key[3] : e[1] = <<key[2], NodeInput(key)>> /\ e[2][2] # NodeOutput(key)

\* C15: a search node whose existing transition for (current node, input),
\* pre-defined or added, has an output other than the required one calls
\* no search node (it neither follows the transition nor adds one) and
\* returns None.
C15_MismatchPrunes ==
    \A key \in InnerNodes :
        (TableMismatch(key) \/ ExtraMismatch(key)) =>
            /\ cache[key] = <<>>
            /\ Children(key) = {}

C15_Witness ==
    /\ Returned
    /\ \E key \in InnerNodes : TableMismatch(key) /\ key[1] = 1 /\ key[3] # {}
    /\ \E key \in InnerNodes : ExtraMismatch(key) /\ ~TableMismatch(key)

\* C17: the search is well-founded, hence terminates: the step index of a
\* search node lies within the trace, every call advances it by exactly
\* one, a node at the end of the trace calls nothing and returns cost 0
\* with an empty path, a result returned at index i has a path of exactly
\* the remaining steps (no branch is deeper than the trace), and the loop
\* over the start nodes has tried as many start nodes as it has dropped.
C17_SearchTerminates ==
    /\ LET called == UNION {Children(par) : par \in DOMAIN cache} IN
       \A key \in DOMAIN cache :
          /\ key[1] \in 0..Len(steps)
          /\ key[1] = 0 \/ key \in called
          /\ \A c \in Children(key) : c[1] = key[1] + 1 /\ c \in DOMAIN cache
          /\ key[1] = Len(steps) =>
                /\ Children(key) = {}
                /\ cache[key] = <<0, <<>>, key[3], key[4]>>
          /\ cache[key] # <<>> => Len(cache[key][2]) = Len(steps) - key[1]
    /\ pc = "search" =>
          Cardinality(Roots) + Len(todo) = Cardinality(INITIAL_NODES)

C17_Witness ==
    /\ Returned
    /\ Len(steps) = 2
    /\ \E key \in DOMAIN cache : key[1] = 2 /\ key[4] = 2
    /\ \E key \in DOMAIN cache : key[1] = 1 /\ cache[key] = <<>>

\* the synthesized states among the destinations of added transitions
Synthesized(ext) == {e[2][1] : e \in ext} \ INITIAL_NODES

\* C18: at every search node reached with synthesized-state count k, and
\* in every result returned with final count k, the synthesized states that
\* are destinations of added transitions are the k distinct states N1..Nk;
\* the current node is a pre-defined node or one of them, and the label
\* N(k+1) of the next synthesized state is the label of no existing state.
C18_LabelsAreFresh ==
    \A key \in DOMAIN cache :
        /\ Synthesized(key[3]) = {NewNodeLabel(j) : j \in 1..key[4]}
        /\ Cardinality(Synthesized(key[3])) = key[4]
        /\ key[2] \in AvailableNodes(key[3])
        /\ NewNodeLabel(key[4] + 1) \notin AvailableNodes(key[3])
        /\ cache[key] # <<>> =>
              /\ Synthesized(cache[key][3]) = {NewNodeLabel(j) : j \in 1..cache[key][4]}
              /\ Cardinality(Synthesized(cache[key][3])) = cache[key][4]

C18_Witness ==
    /\ \E key \in DOMAIN cache :
          key[4] = 2 /\ key[2] = "N2" /\ Synthesized(key[3]) = {"N1", "N2"}
    /\ \E key \in DOMAIN cache :
          key[4] = 1 /\ key[2] \in INITIAL_NODES /\ Cardinality(key[3]) = 2

\* the final added transitions of the result solve kept (main.py:136)
FinalExtra == best_overall[3]

\* step k of the reported path takes a transition an earlier step took
Retaken(k) ==
    \E j \in 1..(k - 1) :
        output.path[j][1] = output.path[k][1] /\ output.path[j][2] = output.path[k][2]

\* C19: in every reported result the steps tagged extra are as many as the
\* final added transitions, each of which is the transition of exactly one
\* tagged step; the steps tagged new node are as many as the reported
\* synthesized states and are tagged extra; a step that takes again an
\* added transition is untagged, and the cost is 1 per tag.
C19_TaggedOnce ==
    Reported =>
        LET p == output.path IN
        /\ Cardinality(TaggedExtra) = Cardinality(FinalExtra)
        /\ \A e \in FinalExtra :
              Cardinality({k \in TaggedExtra :
                             e = <<<<p[k][1], p[k][2]>>, <<p[k][4], p[k][3]>>>>}) = 1
        /\ Cardinality(TaggedNew) = output.extra_node
        /\ TaggedNew \subseteq TaggedExtra
        /\ \A k \in 1..Len(p) :
              (Retaken(k) \/ TableDefines(<<p[k][1], p[k][2]>>)) =>
                  (~p[k][5] /\ ~p[k][6])
        /\ output.extra_cost = Cardinality(TaggedExtra) + Cardinality(TaggedNew)
        /\ output.extra_path = Cardinality(FinalExtra)

C19_Witness ==
    /\ Reported
    /\ Len(output.path) = 2
    /\ Retaken(2)
    /\ output.path[1][5]
    /\ Cardinality(FinalExtra) = 1
    /\ output.extra_cost = 1

\* C20: the steps of every reported path form a deterministic transducer:
\* two steps with the same source node and input have the same
\* destination and output, and every step is a transition of the table or
\* one of the final added transitions, never both.
C20_PathIsDeterministic ==
    Reported =>
        LET p == output.path IN
        /\ \A j \in 1..Len(p) : \A k \in 1..Len(p) :
              (p[j][1] = p[k][1] /\ p[j][2] = p[k][2]) =>
                  (p[j][4] = p[k][4] /\ p[j][3] = p[k][3])
        /\ \A k \in 1..Len(p) :
              LET src == <<p[k][1], p[k][2]>>
                  dst == <<p[k][4], p[k][3]>>
              IN  IF TableDefines(src)
                  THEN table[src[1]][src[2]] = dst /\ src \notin ExtKeys(FinalExtra)
                  ELSE <<src, dst>> \in FinalExtra

C20_Witness ==
    /\ Reported
    /\ Len(output.path) = 2
    /\ output.path[1][1] = output.path[2][1]
    /\ output.path[1][2] = output.path[2][2]
    /\ output.path[2][4] = output.path[2][1]
    /\ ~TableDefines(<<output.path[2][1], output.path[2][2]>>)

====
